---- MODULE Spec2Model ----
(***************************************************************************)
(* keras2bert/models/electra.py: the graph builder (get_model and its      *)
(* helpers) and the weight binder (load_model_weights_from_checkpoint),    *)
(* driven by build_electra_model.                                          *)
(*                                                                         *)
(* A tensor flowing through the graph is identified by the name of the     *)
(* node that produced it.  A checkpoint tensor is identified by its key;   *)
(* only the position table carries its rows.  Dropout probabilities are    *)
(* written in hundredths (0.1 is 10, 1.0 is 100).                          *)
(***************************************************************************)
EXTENDS Integers, Sequences, FiniteSets, TLC

(* ------------------------------ bounds -------------------------------- *)
MaxLayers == 2
MaxMissingFields == 1

(* ------------------------- values of the inputs ----------------------- *)
\* Python's None where an integer may stand (seq_len, embedding_size), and
\* where a string may stand.
None == -1
Nothing == "None"
HiddenSizes == {128}
EmbeddingSizes == {64, 128}
DropoutRates == {0, 10, 100}
PositionCounts == {2, 3}
SeqLens == {None, 1, 2, 1000000000}
StoredRows == {1, 2, 3}

RequiredKeys ==
    {"vocab_size", "type_vocab_size", "max_position_embeddings", "hidden_size",
     "num_hidden_layers", "num_attention_heads", "intermediate_size",
     "hidden_act", "attention_probs_dropout_prob", "hidden_dropout_prob"}

Min(a, b) == IF a <= b THEN a ELSE b

Concat(seqs) ==
    LET RECURSIVE cat(_)
        cat(k) == IF k = 0 THEN << >> ELSE cat(k - 1) \o seqs[k]
    IN  cat(Len(seqs))

(* ------------------------------ the graph ------------------------------ *)
\* A keras layer called on its inputs: one named node of the graph.
Node(name, inputs) == [name |-> name, inputs |-> inputs]

\* A python value handed to a wrapper: one tensor, or a list of tensors.
Tensor(t) == [list |-> FALSE, items |-> <<t>>]
TensorList(ts) == [list |-> TRUE, items |-> ts]

\* Faulty variant: the residual path keeps the list it was handed.
ResidualInput_List(input_layer) == input_layer.items

\* isinstance(input_layer, list): the residual path takes the first element.
ResidualInput(input_layer) ==
    IF input_layer.list THEN << input_layer.items[1] >> ELSE input_layer.items

\* Faulty variant: a rate of 0 counts as a dropout rate.
HasDropout_Inclusive(dropout_rate) == 0 <= dropout_rate /\ dropout_rate < 100

HasDropout(dropout_rate) == 0 < dropout_rate /\ dropout_rate < 100

_wrap_layer(name, input_layer, dropout_rate) ==
    LET build_output == Node(name, input_layer.items)
        dropout_nodes ==
            IF HasDropout(dropout_rate)
            THEN << Node(name \o "-Dropout", <<name>>) >>
            ELSE << >>
        dropout_layer ==
            IF HasDropout(dropout_rate) THEN name \o "-Dropout" ELSE name
        add_layer == Node(name \o "-Add",
                          ResidualInput(input_layer) \o <<dropout_layer>>)
        normal_layer == Node(name \o "-Norm", <<name \o "-Add">>)
    IN  [nodes |-> <<build_output>> \o dropout_nodes \o <<add_layer, normal_layer>>,
         out |-> name \o "-Norm"]

_wrap_embedding(name, build_name, input_layer, dropout_rate) ==
    LET build_output == Node(build_name, <<input_layer>>)
        norm_layer == Node(name \o "-Norm", <<build_name>>)
        dropout_nodes ==
            IF HasDropout(dropout_rate)
            THEN << Node(name \o "-Dropout", <<name \o "-Norm">>) >>
            ELSE << >>
    IN  [nodes |-> <<build_output, norm_layer>> \o dropout_nodes,
         out |-> IF HasDropout(dropout_rate)
                 THEN name \o "-Dropout" ELSE name \o "-Norm"]

get_encoder_component(name, input_layer, hidden_dropout_rate) ==
    LET attention_name == name \o "-MultiHeadSelfAttention"
        feed_forward_name == name \o "-FeedForward"
        attention_layer ==
            _wrap_layer(attention_name,
                        TensorList(<<input_layer, input_layer, input_layer>>),
                        hidden_dropout_rate)
        feed_forward_layer ==
            _wrap_layer(feed_forward_name,
                        Tensor(attention_layer.out),
                        hidden_dropout_rate)
    IN  [nodes |-> attention_layer.nodes \o feed_forward_layer.nodes,
         out |-> feed_forward_layer.out]

EncoderName(i) == "Encoder-" \o ToString(i)

RECURSIVE get_encoders(_, _, _)
get_encoders(encoder_num, input_layer, hidden_dropout_rate) ==
    IF encoder_num <= 0
    THEN [nodes |-> << >>, out |-> input_layer]
    ELSE LET before == get_encoders(encoder_num - 1, input_layer, hidden_dropout_rate)
             last == get_encoder_component(EncoderName(encoder_num - 1),
                                           before.out, hidden_dropout_rate)
         IN  [nodes |-> before.nodes \o last.nodes, out |-> last.out]

get_inputs ==
    [nodes |-> << Node("Input-Token", << >>), Node("Input-Segment", << >>) >>,
     out |-> <<"Input-Token", "Input-Segment">>]

NeedsProjection(embedding_dim, hidden_dim) == embedding_dim # hidden_dim

get_embeddings(inputs, embedding_dim, hidden_dim, embedding_dropout_rate) ==
    LET embedding_token == Node("Embedding-Token", <<inputs[1]>>)
        embedding_segment == Node("Embedding-Segment", <<inputs[2]>>)
        add == Node("Embedding-Add-Token-Segment",
                    <<"Embedding-Token", "Embedding-Segment">>)
        wrapped == _wrap_embedding("Embedding", "Embedding-Position",
                                   "Embedding-Add-Token-Segment",
                                   embedding_dropout_rate)
        map_nodes ==
            IF NeedsProjection(embedding_dim, hidden_dim)
            THEN << Node("Embedding-Map", <<wrapped.out>>) >>
            ELSE << >>
    IN  [nodes |-> <<embedding_token, embedding_segment, add>>
                      \o wrapped.nodes \o map_nodes,
         out |-> IF NeedsProjection(embedding_dim, hidden_dim)
                 THEN "Embedding-Map" ELSE wrapped.out]

DiscriminatorNodes(with_disc, output) ==
    IF with_disc
    THEN << Node("Discriminator-Dense", <<output>>),
            Node("Discriminator-Prediction", <<"Discriminator-Dense">>) >>
    ELSE << >>

\* The keras Model of line 276 over what get_model returns; max_pos_num is
\* the row count of the position table the graph owns.
get_model(max_pos_num, embedding_dim, hidden_dim, transformer_num, hidden_dropout_rate, with_disc) ==
    LET ins == get_inputs
        embeddings == get_embeddings(ins.out, embedding_dim, hidden_dim,
                                     hidden_dropout_rate)
        encoders == get_encoders(transformer_num, embeddings.out,
                                 hidden_dropout_rate)
        disc == DiscriminatorNodes(with_disc, encoders.out)
    IN  [nodes |-> ins.nodes \o embeddings.nodes \o encoders.nodes \o disc,
         inputs |-> ins.out,
         output |-> IF with_disc THEN "Discriminator-Prediction" ELSE encoders.out,
         max_pos_num |-> max_pos_num]

NoModel == [nodes |-> << >>, inputs |-> << >>, output |-> Nothing, max_pos_num |-> 0]

LayerNames(m) == {m.nodes[k].name : k \in DOMAIN m.nodes}

\* model.get_layer(name=...) finds a layer, or raises ValueError.
HasLayer(m, name) == name \in LayerNames(m)

(* ---------------------------- the checkpoint --------------------------- *)
\* Faulty variant: the loop index is taken one-based.
LayerPrefix_OneBased(i) == "bert/encoder/layer_" \o ToString(i + 1)

LayerPrefix(i) == "bert/encoder/layer_" \o ToString(i)

TokenKeys == << "bert/embeddings/word_embeddings" >>
SegmentKeys == << "bert/embeddings/token_type_embeddings" >>
PositionKeys == << "bert/embeddings/position_embeddings" >>
EmbeddingNormKeys ==
    << "bert/embeddings/LayerNorm/gamma", "bert/embeddings/LayerNorm/beta" >>
EmbeddingMapKeys ==
    << "electra/embeddings_project/kernel", "electra/embeddings_project/bias" >>
\* Faulty variant: the key projection is loaded before the query projection.
AttentionKeys_KeyFirst(i) ==
    << LayerPrefix(i) \o "/attention/self/key/kernel",
       LayerPrefix(i) \o "/attention/self/key/bias",
       LayerPrefix(i) \o "/attention/self/query/kernel",
       LayerPrefix(i) \o "/attention/self/query/bias",
       LayerPrefix(i) \o "/attention/self/value/kernel",
       LayerPrefix(i) \o "/attention/self/value/bias",
       LayerPrefix(i) \o "/attention/output/dense/kernel",
       LayerPrefix(i) \o "/attention/output/dense/bias" >>

AttentionKeys(i) ==
    << LayerPrefix(i) \o "/attention/self/query/kernel",
       LayerPrefix(i) \o "/attention/self/query/bias",
       LayerPrefix(i) \o "/attention/self/key/kernel",
       LayerPrefix(i) \o "/attention/self/key/bias",
       LayerPrefix(i) \o "/attention/self/value/kernel",
       LayerPrefix(i) \o "/attention/self/value/bias",
       LayerPrefix(i) \o "/attention/output/dense/kernel",
       LayerPrefix(i) \o "/attention/output/dense/bias" >>
AttentionNormKeys(i) ==
    << LayerPrefix(i) \o "/attention/output/LayerNorm/gamma",
       LayerPrefix(i) \o "/attention/output/LayerNorm/beta" >>
FeedForwardKeys(i) ==
    << LayerPrefix(i) \o "/intermediate/dense/kernel",
       LayerPrefix(i) \o "/intermediate/dense/bias",
       LayerPrefix(i) \o "/output/dense/kernel",
       LayerPrefix(i) \o "/output/dense/bias" >>
FeedForwardNormKeys(i) ==
    << LayerPrefix(i) \o "/output/LayerNorm/gamma",
       LayerPrefix(i) \o "/output/LayerNorm/beta" >>
DiscriminatorDenseKeys ==
    << "discriminator_predictions/dense/kernel",
       "discriminator_predictions/dense/bias" >>
DiscriminatorPredictionKeys ==
    << "discriminator_predictions/dense_1/kernel",
       "discriminator_predictions/dense_1/bias" >>

AttentionName(i) == EncoderName(i) \o "-MultiHeadSelfAttention"
AttentionNormName(i) == EncoderName(i) \o "-MultiHeadSelfAttention-Norm"
FeedForwardName(i) == EncoderName(i) \o "-FeedForward"
FeedForwardNormName(i) == EncoderName(i) \o "-FeedForward-Norm"

Range(s) == {s[k] : k \in DOMAIN s}

(* The checkpoint format: the paths an ELECTRA checkpoint stores its tensors *)
(* under, as section 6 of the specification lists them.                     *)
PathPrefix(l) == "bert/encoder/layer_" \o ToString(l) \o "/"
AttentionPaths(l) ==
    << PathPrefix(l) \o "attention/self/query/kernel",
       PathPrefix(l) \o "attention/self/query/bias",
       PathPrefix(l) \o "attention/self/key/kernel",
       PathPrefix(l) \o "attention/self/key/bias",
       PathPrefix(l) \o "attention/self/value/kernel",
       PathPrefix(l) \o "attention/self/value/bias",
       PathPrefix(l) \o "attention/output/dense/kernel",
       PathPrefix(l) \o "attention/output/dense/bias" >>
AttentionNormPaths(l) ==
    << PathPrefix(l) \o "attention/output/LayerNorm/gamma",
       PathPrefix(l) \o "attention/output/LayerNorm/beta" >>
FeedForwardPaths(l) ==
    << PathPrefix(l) \o "intermediate/dense/kernel",
       PathPrefix(l) \o "intermediate/dense/bias",
       PathPrefix(l) \o "output/dense/kernel",
       PathPrefix(l) \o "output/dense/bias" >>
FeedForwardNormPaths(l) ==
    << PathPrefix(l) \o "output/LayerNorm/gamma",
       PathPrefix(l) \o "output/LayerNorm/beta" >>
ProjectionPaths ==
    << "electra/embeddings_project/kernel", "electra/embeddings_project/bias" >>
DiscriminatorPaths ==
    << "discriminator_predictions/dense/kernel",
       "discriminator_predictions/dense/bias",
       "discriminator_predictions/dense_1/kernel",
       "discriminator_predictions/dense_1/bias" >>
LayerPaths(l) ==
    Range(AttentionPaths(l)) \cup Range(AttentionNormPaths(l))
      \cup Range(FeedForwardPaths(l)) \cup Range(FeedForwardNormPaths(l))

EmbeddingPaths ==
    << "bert/embeddings/word_embeddings",
       "bert/embeddings/token_type_embeddings",
       "bert/embeddings/position_embeddings",
       "bert/embeddings/LayerNorm/gamma",
       "bert/embeddings/LayerNorm/beta" >>

\* Every key a checkpoint of a model with `layers` encoder layers stores.
StoredKeys(layers) ==
    Range(EmbeddingPaths) \cup Range(ProjectionPaths)
      \cup UNION {LayerPaths(l) : l \in 0..(layers - 1)}
      \cup Range(DiscriminatorPaths)

(* ------------------------------- state --------------------------------- *)
VARIABLES
    config_file,         \* the parsed JSON of config_file: key -> value
    seq_len,             \* build_electra_model's seq_len argument
    with_discriminator,  \* the with_discriminator argument
    checkpoint,          \* the keys checkpoint_file stores
    stored_rows,         \* the rows of its position table, when stored
    entry,               \* the function the caller entered
    pc,                  \* the statement about to run, "returned" or "raised"
    config,              \* the config dict in memory
    model_args,          \* the arguments get_model was called with
    model,               \* the graph
    i,                   \* the loop variable of the binder
    loaded,              \* every key handed to the loader, in order
    weights,             \* every set_weights call made, in order
    error                \* the exception that ended the call

vars == << config_file, seq_len, with_discriminator, checkpoint, stored_rows,
           entry, pc, config, model_args, model, i, loaded, weights, error >>

inputs == << config_file, seq_len, with_discriminator, checkpoint, stored_rows >>

NoError == [type |-> Nothing, arg |-> Nothing]
Raise(type, arg) == [type |-> type, arg |-> arg]
NoArgs == [max_pos_num |-> 0, embedding_dim |-> 0, hidden_dim |-> 0, transformer_num |-> 0, hidden_dropout_rate |-> 0, with_discriminator |-> FALSE]

\* A config file's content; embedding_size is optional.
ConfigFile(layers, embedding_size, hidden_size, dropout, positions) ==
    LET full ==
            [k \in RequiredKeys \cup {"embedding_size"} |->
                CASE k = "vocab_size" -> 30522
                  [] k = "type_vocab_size" -> 2
                  [] k = "max_position_embeddings" -> positions
                  [] k = "hidden_size" -> hidden_size
                  [] k = "embedding_size" -> embedding_size
                  [] k = "num_hidden_layers" -> layers
                  [] k = "num_attention_heads" -> 4
                  [] k = "intermediate_size" -> 4 * hidden_size
                  [] k = "hidden_act" -> "gelu"
                  [] k = "attention_probs_dropout_prob" -> dropout
                  [] k = "hidden_dropout_prob" -> dropout]
    IN  IF embedding_size = None
        THEN [k \in RequiredKeys |-> full[k]]
        ELSE full

Without(f, keys) == [k \in (DOMAIN f) \ keys |-> f[k]]

\* The subsets of S of at most n elements.
RECURSIVE UpTo(_, _)
UpTo(S, n) ==
    IF n = 0 THEN {{}}
    ELSE LET smaller == UpTo(S, n - 1)
         IN  smaller \cup {T \cup {x} : T \in smaller, x \in S}

\* The loader's tensor for a key: the position table carries its rows.
Load(key) ==
    [key |-> key,
     rows |-> IF key = PositionKeys[1] THEN [r \in 1..stored_rows |-> r] ELSE << >>]

\* Faulty variant: the stored table is assigned whole.
Slice_Whole(tensor, n) == tensor

\* tensor[:n, :]
Slice(tensor, n) ==
    [tensor EXCEPT !.rows = SubSeq(tensor.rows, 1, Min(n, Len(tensor.rows)))]

InitState ==
    /\ entry = Nothing
    /\ pc = "start"
    /\ config = << >>
    /\ model_args = NoArgs
    /\ model = NoModel
    /\ i = 0
    /\ loaded = << >>
    /\ weights = << >>
    /\ error = NoError

\* Config files of every shape, also with required keys missing.
InitConfigs ==
    /\ \E layers \in 0..MaxLayers, e \in EmbeddingSizes \cup {None}, h \in HiddenSizes, d \in DropoutRates, miss \in UpTo(RequiredKeys, MaxMissingFields) :
          config_file = Without(ConfigFile(layers, e, h, d, 2), miss)
    /\ seq_len \in {None, 1000000000}
    /\ with_discriminator \in BOOLEAN
    /\ checkpoint = StoredKeys(MaxLayers)
    /\ stored_rows = 2

\* Position tables of every size against every configured count.
InitPositions ==
    /\ \E layers \in {0, MaxLayers}, e \in EmbeddingSizes, h \in HiddenSizes, p \in PositionCounts :
          config_file = ConfigFile(layers, e, h, 0, p)
    /\ seq_len \in SeqLens
    /\ with_discriminator \in BOOLEAN
    /\ checkpoint = StoredKeys(MaxLayers)
    /\ stored_rows \in StoredRows

\* Checkpoints of every stored depth, complete or with one key missing.
InitCheckpoints ==
    /\ \E layers \in 0..MaxLayers, e \in EmbeddingSizes, h \in HiddenSizes :
          config_file = ConfigFile(layers, e, h, 0, 2)
    /\ seq_len = 1000000000
    /\ with_discriminator \in BOOLEAN
    /\ \E depth \in 0..MaxLayers, miss \in UpTo(StoredKeys(MaxLayers), 1) :
          checkpoint = StoredKeys(depth) \ miss
    /\ stored_rows = 2

Init == InitState /\ (InitConfigs \/ InitPositions \/ InitCheckpoints)

(* -------------------------- build_electra_model ------------------------ *)
\* Faulty variant: vocab_size is read with a default instead of a subscript.
Subscripts_VocabDefault ==
    (IF seq_len # None THEN << "max_position_embeddings" >> ELSE << >>)
      \o << "type_vocab_size", "max_position_embeddings",
            "hidden_size", "num_hidden_layers", "num_attention_heads",
            "intermediate_size", "hidden_act", "attention_probs_dropout_prob",
            "hidden_dropout_prob" >>

\* The subscripts config[...] of lines 255-270, in evaluation order.
Subscripts ==
    (IF seq_len # None THEN << "max_position_embeddings" >> ELSE << >>)
      \o << "vocab_size", "type_vocab_size", "max_position_embeddings",
            "hidden_size", "num_hidden_layers", "num_attention_heads",
            "intermediate_size", "hidden_act", "attention_probs_dropout_prob",
            "hidden_dropout_prob" >>

FirstMissing(keys, present) ==
    IF \E k \in DOMAIN keys : keys[k] \notin present
    THEN CHOOSE k \in DOMAIN keys :
            /\ keys[k] \notin present
            /\ \A j \in 1..(k - 1) : keys[j] \in present
    ELSE 0

\* config['max_position_embeddings'] = min(seq_len, ...), and the initializer.
ReadConfig(file, len) ==
    [k \in (DOMAIN file) \cup {"bert_initializer"} |->
        IF k = "bert_initializer" THEN "TruncatedNormal"
        ELSE IF k = "max_position_embeddings" /\ len # None
             THEN Min(len, file[k])
             ELSE file[k]]

\* config.get('embedding_size', config.get('hidden_size'))
EmbeddingDim(cfg) ==
    IF "embedding_size" \in DOMAIN cfg THEN cfg["embedding_size"]
    ELSE cfg["hidden_size"]

ModelArgs(cfg, transformer_num, with_disc) ==
    [max_pos_num |-> cfg["max_position_embeddings"],
     embedding_dim |-> EmbeddingDim(cfg),
     hidden_dim |-> cfg["hidden_size"],
     transformer_num |-> transformer_num,
     hidden_dropout_rate |-> cfg["hidden_dropout_prob"],
     with_discriminator |-> with_disc]

BuildGraph(a) ==
    get_model(a.max_pos_num, a.embedding_dim, a.hidden_dim, a.transformer_num, a.hidden_dropout_rate, a.with_discriminator)

\* Lines 251-275: read the config and evaluate get_model's arguments.
build_electra_model ==
    /\ pc = "start"
    /\ entry' = "build_electra_model"
    /\ LET m == FirstMissing(Subscripts, DOMAIN config_file)
       IN  IF m # 0
           THEN /\ error' = Raise("KeyError", Subscripts[m])
                /\ pc' = "raised"
                /\ UNCHANGED << config, model_args >>
           ELSE /\ config' = ReadConfig(config_file, seq_len)
                /\ model_args' = ModelArgs(config', config'["num_hidden_layers"], with_discriminator)
                /\ pc' = "get_model"
                /\ UNCHANGED error
    /\ UNCHANGED << inputs, model, i, loaded, weights >>

\* Lines 258-282: build the graph, wrap it in a Model, call the binder.
call_get_model ==
    /\ pc = "get_model"
    /\ model' = BuildGraph(model_args)
    /\ pc' = "token"
    /\ UNCHANGED << inputs, entry, config, model_args, i, loaded, weights, error >>

\* A caller binding a graph it built itself with get_model, whose encoder
\* stack need not have the depth the config states.
call_load_model_weights_from_checkpoint ==
    /\ pc = "start"
    /\ RequiredKeys \subseteq DOMAIN config_file
    /\ entry' = "load_model_weights_from_checkpoint"
    /\ config' = config_file
    /\ \E transformer_num \in 0..MaxLayers :
          model_args' = ModelArgs(config_file, transformer_num, with_discriminator)
    /\ model' = BuildGraph(model_args')
    /\ pc' = "token"
    /\ UNCHANGED << inputs, i, loaded, weights, error >>

(* ------------------- load_model_weights_from_checkpoint ---------------- *)
\* What set_weights accepts: the position table must have the rows the
\* graph's position node was built with.
FitsLayer(name, tensors) ==
    name = "Embedding-Position" => Len(tensors[1].rows) = model.max_pos_num

\* One statement model.get_layer(name=...).set_weights([loader(k), ...]):
\* the layer lookup, then the loads in order, then the assignment.
Bind(name, keys, tensors, next) ==
    IF ~HasLayer(model, name)
    THEN /\ error' = Raise("ValueError", name)
         /\ pc' = "raised"
         /\ UNCHANGED << loaded, weights >>
    ELSE LET m == FirstMissing(keys, checkpoint)
         IN  IF m # 0
             THEN /\ loaded' = loaded \o SubSeq(keys, 1, m)
                  /\ error' = Raise("NotFoundError", keys[m])
                  /\ pc' = "raised"
                  /\ UNCHANGED weights
             ELSE /\ loaded' = loaded \o keys
                  /\ IF FitsLayer(name, tensors)
                     THEN /\ weights' = Append(weights, [layer |-> name, weights |-> tensors])
                          /\ pc' = next
                          /\ UNCHANGED error
                     ELSE /\ error' = Raise("ValueError", "shape")
                          /\ pc' = "raised"
                          /\ UNCHANGED weights

LoadAll(keys) == [k \in DOMAIN keys |-> Load(keys[k])]

Frame == << inputs, entry, config, model_args, model >>

bind_token ==
    /\ pc = "token"
    /\ Bind("Embedding-Token", TokenKeys, LoadAll(TokenKeys), "segment")
    /\ UNCHANGED << Frame, i >>

bind_segment ==
    /\ pc = "segment"
    /\ Bind("Embedding-Segment", SegmentKeys, LoadAll(SegmentKeys), "position")
    /\ UNCHANGED << Frame, i >>

PositionTable(key, max_position_embeddings) ==
    << Slice(Load(key), max_position_embeddings) >>

bind_position ==
    /\ pc = "position"
    /\ Bind("Embedding-Position", PositionKeys, PositionTable(PositionKeys[1], config["max_position_embeddings"]), "norm")
    /\ UNCHANGED << Frame, i >>

bind_norm ==
    /\ pc = "norm"
    /\ Bind("Embedding-Norm", EmbeddingNormKeys, LoadAll(EmbeddingNormKeys), "map")
    /\ UNCHANGED << Frame, i >>

bind_map ==
    /\ pc = "map"
    /\ Bind("Embedding-Map", EmbeddingMapKeys, LoadAll(EmbeddingMapKeys), "loop")
    /\ UNCHANGED << Frame, i >>

\* for i in range(config['num_hidden_layers']): the range is exhausted.
loop_exit ==
    /\ pc = "loop"
    /\ i >= config["num_hidden_layers"]
    /\ pc' = IF with_discriminator THEN "discriminator_dense" ELSE "returned"
    /\ UNCHANGED << Frame, i, loaded, weights, error >>

\* try: get_layer(...) except ValueError: continue
loop_continue ==
    /\ pc = "loop"
    /\ i < config["num_hidden_layers"]
    /\ ~HasLayer(model, AttentionName(i))
    /\ i' = i + 1
    /\ UNCHANGED << Frame, pc, loaded, weights, error >>

bind_attention ==
    /\ pc = "loop"
    /\ i < config["num_hidden_layers"]
    /\ HasLayer(model, AttentionName(i))
    /\ Bind(AttentionName(i), AttentionKeys(i), LoadAll(AttentionKeys(i)), "attention_norm")
    /\ UNCHANGED << Frame, i >>

bind_attention_norm ==
    /\ pc = "attention_norm"
    /\ Bind(AttentionNormName(i), AttentionNormKeys(i), LoadAll(AttentionNormKeys(i)), "feed_forward")
    /\ UNCHANGED << Frame, i >>

bind_feed_forward ==
    /\ pc = "feed_forward"
    /\ Bind(FeedForwardName(i), FeedForwardKeys(i), LoadAll(FeedForwardKeys(i)), "feed_forward_norm")
    /\ UNCHANGED << Frame, i >>

bind_feed_forward_norm ==
    /\ pc = "feed_forward_norm"
    /\ Bind(FeedForwardNormName(i), FeedForwardNormKeys(i), LoadAll(FeedForwardNormKeys(i)), "loop")
    /\ i' = IF pc' = "loop" THEN i + 1 ELSE i
    /\ UNCHANGED Frame

bind_discriminator_dense ==
    /\ pc = "discriminator_dense"
    /\ Bind("Discriminator-Dense", DiscriminatorDenseKeys, LoadAll(DiscriminatorDenseKeys), "discriminator_prediction")
    /\ UNCHANGED << Frame, i >>

bind_discriminator_prediction ==
    /\ pc = "discriminator_prediction"
    /\ Bind("Discriminator-Prediction", DiscriminatorPredictionKeys, LoadAll(DiscriminatorPredictionKeys), "returned")
    /\ UNCHANGED << Frame, i >>

Next ==
    \/ build_electra_model
    \/ call_get_model
    \/ call_load_model_weights_from_checkpoint
    \/ bind_token
    \/ bind_segment
    \/ bind_position
    \/ bind_norm
    \/ bind_map
    \/ loop_exit
    \/ loop_continue
    \/ bind_attention
    \/ bind_attention_norm
    \/ bind_feed_forward
    \/ bind_feed_forward_norm
    \/ bind_discriminator_dense
    \/ bind_discriminator_prediction

Spec == Init /\ [][Next]_vars

(* ======================================================================= *)
(* The claims.  What follows states the specification's sentences; none of *)
(* it models code.                                                         *)
(* ======================================================================= *)
Built == model # NoModel
Finished == pc \in {"returned", "raised"}
Assignments(name) == {k \in DOMAIN weights : weights[k].layer = name}
Assigned(name) == Assignments(name) # {}
KeysOf(tensors) == [k \in DOMAIN tensors |-> tensors[k].key]
Layers == 0..(MaxLayers + 1)

Step(name, paths) == [name |-> name, paths |-> paths]

LayerSteps(l) ==
    << Step("Encoder-" \o ToString(l) \o "-MultiHeadSelfAttention", AttentionPaths(l)),
       Step("Encoder-" \o ToString(l) \o "-MultiHeadSelfAttention-Norm", AttentionNormPaths(l)),
       Step("Encoder-" \o ToString(l) \o "-FeedForward", FeedForwardPaths(l)),
       Step("Encoder-" \o ToString(l) \o "-FeedForward-Norm", FeedForwardNormPaths(l)) >>

RECURSIVE StackSteps(_)
StackSteps(n) == IF n <= 0 THEN << >> ELSE StackSteps(n - 1) \o LayerSteps(n - 1)

\* The binding order of section 4.2 for a stack of n layers.
BindingOrder(n) ==
    << Step("Embedding-Token", SubSeq(EmbeddingPaths, 1, 1)),
       Step("Embedding-Segment", SubSeq(EmbeddingPaths, 2, 2)),
       Step("Embedding-Position", SubSeq(EmbeddingPaths, 3, 3)),
       Step("Embedding-Norm", SubSeq(EmbeddingPaths, 4, 5)),
       Step("Embedding-Map", ProjectionPaths) >>
      \o StackSteps(n)
      \o << Step("Discriminator-Dense", SubSeq(DiscriminatorPaths, 1, 2)),
            Step("Discriminator-Prediction", SubSeq(DiscriminatorPaths, 3, 4)) >>

IsDiscriminatorNode(name) ==
    name \in {"Discriminator-Dense", "Discriminator-Prediction"}

\* The steps of the binding order whose node the graph has (the head's only
\* when the binder is asked for the head).
Wanted(step) ==
    /\ HasLayer(model, step.name)
    /\ IsDiscriminatorNode(step.name) => with_discriminator
Plan == SelectSeq(BindingOrder(config["num_hidden_layers"]), Wanted)
PlanPaths == Concat([k \in DOMAIN Plan |-> Plan[k].paths])
CheckpointComplete == Range(PlanPaths) \subseteq checkpoint
RowsFit == Min(stored_rows, config["max_position_embeddings"]) = model.max_pos_num

Rank(order, name) == CHOOSE k \in DOMAIN order : order[k].name = name
Increasing(s) == \A a, b \in DOMAIN s : a < b => s[a] < s[b]

(* ----------------------------------------------------------------------- *)
\* C6: the built graph's node names are exactly the set the naming scheme
\* gives for the layer count, the embedding and hidden sizes, the dropout
\* rate and the discriminator flag, and no name occurs twice.
ExpectedDropouts(a) ==
    IF 0 < a.hidden_dropout_rate /\ a.hidden_dropout_rate < 100
    THEN {"Embedding-Dropout"}
           \cup {"Encoder-" \o ToString(l) \o "-MultiHeadSelfAttention-Dropout" : l \in 0..(a.transformer_num - 1)}
           \cup {"Encoder-" \o ToString(l) \o "-FeedForward-Dropout" : l \in 0..(a.transformer_num - 1)}
    ELSE {}
ExpectedNames(a) ==
    {"Input-Token", "Input-Segment", "Embedding-Token", "Embedding-Segment",
     "Embedding-Add-Token-Segment", "Embedding-Position", "Embedding-Norm"}
      \cup (IF a.embedding_dim # a.hidden_dim THEN {"Embedding-Map"} ELSE {})
      \cup UNION {{"Encoder-" \o ToString(l) \o block \o part : part \in {"", "-Add", "-Norm"}, block \in {"-MultiHeadSelfAttention", "-FeedForward"}} : l \in 0..(a.transformer_num - 1)}
      \cup ExpectedDropouts(a)
      \cup (IF a.with_discriminator
            THEN {"Discriminator-Dense", "Discriminator-Prediction"} ELSE {})
C6_NodeNamesExact ==
    Built =>
      /\ LayerNames(model) = ExpectedNames(model_args)
      /\ \A a, b \in DOMAIN model.nodes :
            model.nodes[a].name = model.nodes[b].name => a = b
C6_Witness ==
    /\ Built
    /\ model_args.transformer_num = MaxLayers
    /\ model_args.embedding_dim # model_args.hidden_dim
    /\ model_args.hidden_dropout_rate = 10
    /\ model_args.with_discriminator
    /\ HasLayer(model, "Embedding-Map")
    /\ HasLayer(model, "Encoder-1-FeedForward-Dropout")

(* ----------------------------------------------------------------------- *)
\* C9: layer 0 takes the embedding output and layer l+1 the feed-forward
\* Norm of layer l; with no layer the stack's output is its input; the
\* attention block's Add takes the single layer input and the block's
\* post-dropout output, the feed-forward block's Add the attention Norm and
\* its own post-dropout output.
InputsOf(name) ==
    LET k == CHOOSE k \in DOMAIN model.nodes : model.nodes[k].name = name
    IN  model.nodes[k].inputs
Dropped(a) == 0 < a.hidden_dropout_rate /\ a.hidden_dropout_rate < 100
EmbeddingOutput(a) ==
    IF a.embedding_dim # a.hidden_dim THEN "Embedding-Map"
    ELSE IF Dropped(a) THEN "Embedding-Dropout" ELSE "Embedding-Norm"
LayerInput(a, l) ==
    IF l = 0 THEN EmbeddingOutput(a)
    ELSE "Encoder-" \o ToString(l - 1) \o "-FeedForward-Norm"
PostDropout(a, block) == IF Dropped(a) THEN block \o "-Dropout" ELSE block
StackOutput(a) == LayerInput(a, a.transformer_num)
C9_EncoderChain ==
    Built =>
      /\ \A l \in 0..(model_args.transformer_num - 1) :
            LET x == LayerInput(model_args, l)
                att == "Encoder-" \o ToString(l) \o "-MultiHeadSelfAttention"
                ff == "Encoder-" \o ToString(l) \o "-FeedForward"
            IN  /\ InputsOf(att) = <<x, x, x>>
                /\ InputsOf(att \o "-Add") = <<x, PostDropout(model_args, att)>>
                /\ InputsOf(att \o "-Norm") = <<att \o "-Add">>
                /\ InputsOf(ff) = <<att \o "-Norm">>
                /\ InputsOf(ff \o "-Add") = <<att \o "-Norm", PostDropout(model_args, ff)>>
                /\ InputsOf(ff \o "-Norm") = <<ff \o "-Add">>
      /\ model_args.with_discriminator =>
            InputsOf("Discriminator-Dense") = <<StackOutput(model_args)>>
      /\ ~model_args.with_discriminator => model.output = StackOutput(model_args)
C9_Witness ==
    /\ Built
    /\ model_args.transformer_num = 2
    /\ model_args.hidden_dropout_rate = 10
    /\ InputsOf("Encoder-1-MultiHeadSelfAttention-Add")
         = <<"Encoder-0-FeedForward-Norm", "Encoder-1-MultiHeadSelfAttention-Dropout">>
C9_WitnessEmptyStack ==
    /\ Built
    /\ model_args.transformer_num = 0
    /\ ~model_args.with_discriminator
    /\ model.output = "Embedding-Norm"

(* ----------------------------------------------------------------------- *)
\* C8: with a required hyperparameter missing from the config,
\* build_electra_model raises a configuration error (a KeyError naming a
\* missing key) with no graph node created, no checkpoint key fetched and
\* no weight assigned.
C8_ConfigFailsFast ==
    (entry = "build_electra_model" /\ ~(RequiredKeys \subseteq DOMAIN config_file)) =>
      /\ pc = "raised"
      /\ error.type = "KeyError"
      /\ error.arg \in RequiredKeys \ DOMAIN config_file
      /\ model.nodes = << >>
      /\ loaded = << >>
      /\ weights = << >>
C8_Witness ==
    /\ entry = "build_electra_model"
    /\ "hidden_dropout_prob" \notin DOMAIN config_file
    /\ pc = "raised"
    /\ error = Raise("KeyError", "hidden_dropout_prob")

(* ----------------------------------------------------------------------- *)
\* C1: the projection node Embedding-Map is bound only when the graph has
\* it; on a graph without it the binder raises no error for it, fetches
\* neither projection key and goes on to the encoder layers.
C1_ProjectionOptional ==
    (Built /\ ~HasLayer(model, "Embedding-Map")) =>
      /\ error # Raise("ValueError", "Embedding-Map")
      /\ \A k \in DOMAIN loaded : loaded[k] \notin Range(ProjectionPaths)

(* ----------------------------------------------------------------------- *)
\* C2: when the checkpoint lacks a key that a node of the graph needs, the
\* finished binding has raised a missing-key error naming the first such
\* key in binding order, and neither the node that needed it nor any node
\* after it in the order has been assigned.
StepLacksKey(step) == ~(Range(step.paths) \subseteq checkpoint)
FirstAbsentPath(step) ==
    step.paths[CHOOSE k \in DOMAIN step.paths :
                  /\ step.paths[k] \notin checkpoint
                  /\ \A j \in 1..(k - 1) : step.paths[j] \in checkpoint]
C2_MissingKeyAborts ==
    Built =>
      LET plan == Plan
          lacking == {k \in DOMAIN plan : StepLacksKey(plan[k])}
      IN  lacking # {} =>
            LET first == CHOOSE k \in lacking : \A j \in lacking : k <= j
            IN  /\ \A k \in first..Len(plan) : ~Assigned(plan[k].name)
                /\ Finished =>
                      error = Raise("NotFoundError", FirstAbsentPath(plan[first]))

(* ----------------------------------------------------------------------- *)
\* C3: every layer index below num_hidden_layers whose attention node the
\* graph lacks is skipped: none of its keys is fetched and none of its
\* nodes assigned; and with every needed key stored, the binding of a
\* graph that has fewer layers than the checkpoint returns without error
\* with every present layer bound.
SkippedLayers ==
    {l \in 0..(config["num_hidden_layers"] - 1) :
        ~HasLayer(model, "Encoder-" \o ToString(l) \o "-MultiHeadSelfAttention")}
PresentLayers ==
    {l \in 0..(config["num_hidden_layers"] - 1) :
        HasLayer(model, "Encoder-" \o ToString(l) \o "-MultiHeadSelfAttention")}
CheckpointDepth ==
    Cardinality({l \in Layers : LayerPaths(l) \subseteq checkpoint})
C3_ShallowGraphBinds ==
    Built =>
      /\ \A l \in SkippedLayers :
            /\ \A k \in DOMAIN loaded : loaded[k] \notin LayerPaths(l)
            /\ \A k \in DOMAIN LayerSteps(l) : ~Assigned(LayerSteps(l)[k].name)
      /\ (Finished /\ CheckpointComplete /\ RowsFit
            /\ model_args.transformer_num < CheckpointDepth) =>
            /\ pc = "returned"
            /\ \A l \in PresentLayers :
                  \A k \in DOMAIN LayerSteps(l) : Assigned(LayerSteps(l)[k].name)

(* ----------------------------------------------------------------------- *)
\* C4: a graph built without the discriminator has neither discriminator
\* node and no discriminator key is ever fetched for it; a graph built with
\* it has both nodes, Discriminator-Prediction is its output, and the
\* binding, which lacks no key it needs, fetches the four discriminator keys.
C4_DiscriminatorRoundTrip ==
    Built =>
      /\ ~model_args.with_discriminator =>
            /\ ~HasLayer(model, "Discriminator-Dense")
            /\ ~HasLayer(model, "Discriminator-Prediction")
            /\ \A k \in DOMAIN loaded : loaded[k] \notin Range(DiscriminatorPaths)
      /\ model_args.with_discriminator =>
            /\ HasLayer(model, "Discriminator-Dense")
            /\ HasLayer(model, "Discriminator-Prediction")
            /\ model.output = "Discriminator-Prediction"
            /\ (Finished /\ CheckpointComplete /\ RowsFit) =>
                  Range(DiscriminatorPaths) \subseteq Range(loaded)

(* ----------------------------------------------------------------------- *)
\* C5: the assignments follow the fixed binding order (no node is assigned
\* before one that precedes it), each node receives the keys of its own
\* step in the step's order, the keys are fetched in the order of the
\* steps, and every key fetched for layer l starts with
\* bert/encoder/layer_l/.
FixedOrder == BindingOrder(MaxLayers + 1)
FixedPaths == Concat([k \in DOMAIN FixedOrder |-> FixedOrder[k].paths])
PathRank(path) == CHOOSE k \in DOMAIN FixedPaths : FixedPaths[k] = path
C5_FixedBindingOrder ==
    /\ \A k \in DOMAIN weights :
          /\ \E r \in DOMAIN FixedOrder : FixedOrder[r].name = weights[k].layer
          /\ KeysOf(weights[k].weights) = FixedOrder[Rank(FixedOrder, weights[k].layer)].paths
    /\ Increasing([k \in DOMAIN weights |-> Rank(FixedOrder, weights[k].layer)])
    /\ \A k \in DOMAIN loaded : loaded[k] \in Range(FixedPaths)
    /\ Increasing([k \in DOMAIN loaded |-> PathRank(loaded[k])])
    /\ (pc \in {"attention_norm", "feed_forward", "feed_forward_norm"}) =>
          loaded[Len(loaded)] \in LayerPaths(i)
C5_Witness ==
    /\ pc = "returned"
    /\ with_discriminator
    /\ Len(weights) = 7 + 4 * MaxLayers
    /\ weights[6].layer = "Encoder-0-MultiHeadSelfAttention"
    /\ weights[Len(weights)].layer = "Discriminator-Prediction"

(* ----------------------------------------------------------------------- *)
\* C7: once the position step has run on a stored table, the position node
\* holds exactly the first max_position_embeddings rows when the table has
\* at least that many rows, and the binding has failed when it has fewer;
\* in build_electra_model the count of both the graph's table and the
\* binder's slice is min(seq_len, the file's max_position_embeddings).
PositionStepRan ==
    /\ Built
    /\ Len(loaded) >= 3
    /\ loaded[3] = "bert/embeddings/position_embeddings"
    /\ loaded[3] \in checkpoint
Configured == config["max_position_embeddings"]
C7_PositionSlice ==
    /\ (PositionStepRan /\ stored_rows >= Configured) =>
          /\ Cardinality(Assignments("Embedding-Position")) = 1
          /\ \A k \in Assignments("Embedding-Position") :
                weights[k].weights = << [key |-> "bert/embeddings/position_embeddings", rows |-> [r \in 1..Configured |-> r]] >>
    /\ (PositionStepRan /\ stored_rows < Configured) =>
          /\ pc = "raised"
          /\ ~Assigned("Embedding-Position")
    /\ (entry = "build_electra_model" /\ pc # "raised") =>
          /\ Configured = (IF seq_len = None THEN config_file["max_position_embeddings"]
                           ELSE Min(seq_len, config_file["max_position_embeddings"]))
          /\ model_args.max_pos_num = Configured
          /\ Built => model.max_pos_num = Configured
C7_Witness ==
    /\ entry = "build_electra_model"
    /\ seq_len = 2
    /\ config_file["max_position_embeddings"] = 3
    /\ stored_rows = 3
    /\ Assigned("Embedding-Position")
C7_WitnessShort ==
    /\ PositionStepRan
    /\ stored_rows < Configured
    /\ pc = "raised"

(* ----------------------------------------------------------------------- *)
\* C10: when build_electra_model has returned, every parameter-owning node
\* of the graph has been assigned exactly once, from the keys of its own
\* component and layer index.
OwnSteps ==
    {k \in DOMAIN FixedOrder : HasLayer(model, FixedOrder[k].name)}
C10_EveryNodeBoundOnce ==
    (entry = "build_electra_model" /\ pc = "returned") =>
      /\ \A k \in OwnSteps :
            /\ Cardinality(Assignments(FixedOrder[k].name)) = 1
            /\ \A a \in Assignments(FixedOrder[k].name) :
                  KeysOf(weights[a].weights) = FixedOrder[k].paths
      /\ Cardinality(OwnSteps) = 4 + 4 * config_file["num_hidden_layers"]
                                   + (IF HasLayer(model, "Embedding-Map") THEN 1 ELSE 0)
                                   + (IF with_discriminator THEN 2 ELSE 0)
C10_Witness ==
    /\ entry = "build_electra_model"
    /\ pc = "returned"
    /\ config_file["num_hidden_layers"] = 1
    /\ with_discriminator
    /\ Assigned("Embedding-Map")
    /\ Assigned("Encoder-0-FeedForward-Norm")
    /\ Assigned("Discriminator-Prediction")

====
